---- MODULE Spec2Model ----
(***************************************************************************)
(* alx-polly: the poll and vote handlers of app/lib/actions/poll-actions.ts *)
(* and of the app/api route handlers, run against the record store whose   *)
(* schema and row-level policies README.md documents.                      *)
(*                                                                         *)
(* Every store round trip (an awaited supabase call) is one atomic step;   *)
(* a handler with several round trips (updatePoll, submitVote) keeps its   *)
(* locals in a slot of inflight between them, so other requests interleave.*)
(* call is the most recently completed invocation with its result.         *)
(* The handlers are modelled as invoked; Middleware is the session filter   *)
(* of middleware.ts that an HTTP request meets before it reaches one.       *)
(*                                                                         *)
(* Two browser components have specifications of their own: AuthProvider    *)
(* (app/lib/context/auth-context.tsx), whose state is the record provider,  *)
(* and the admin page (app/(dashboard)/admin/page.tsx), whose state is the  *)
(* record page and whose requests are served by the handlers above.         *)
(***************************************************************************)
EXTENDS Integers, Sequences, FiniteSets, Bags, TLC

VARIABLES rls, profile, polls, votes, nextPollId, nextVoteId, inflight, call, started,
          provider, page

vars == <<rls, profile, polls, votes, nextPollId, nextVoteId, inflight, call, started,
          provider, page>>

(* ---------------- bounds of the model ---------------- *)

\* poll ids a request can address, and polls ever created in one behaviour
MaxPolls == 2
\* handler invocations started in one behaviour of the interleaving profile
MaxCalls == 3
\* handler invocations started in one behaviour of the validation profile
MaxInputCalls == 2
\* handler invocations started in one behaviour of the admin page
MaxPageCalls == 3
\* auth events delivered to the listener of AuthProvider in one behaviour
MaxEvents == 3

(* ---------------- program constants ---------------- *)

MaxQuestionLen == 500
MaxOptionLen == 200
MinOptions == 2
MaxOptions == 10

(* ---------------- identities ---------------- *)

Anon == "anon"
Users == {"alice", "root"}
AllCallers == Users \cup {Anon}
\* the validation profile sends its inputs as one signed-in user or as nobody
\* and the admin page is served the requests of the identity that views it
Callers ==
  CASE profile = "race" -> AllCallers
    [] profile = "page" -> {page.user}
    [] OTHER -> {"alice", Anon}
NoUser == "null"

\* the contact address the identity provider reports for a session
Email(u) ==
  CASE u = "alice" -> "alice@example.com"
    [] u = "root" -> "root@alxpolly.com"
    [] OTHER -> ""

adminEmails == {"admin@alxpolly.com", "root@alxpolly.com"}

\* an admin test that every session passes
isUserAdminAnyone(user) == TRUE

isUserAdmin(user) == Email(user) \in adminEmails

\* supabase.auth.getUser(): the outcomes a caller's session can produce.
\* A signed-in caller resolves to its identity unless the auth service
\* fails (fault); a caller without session resolves to no user, with or
\* without an error object.
getUser(caller) ==
  IF caller = Anon
    THEN {[user |-> NoUser, error |-> FALSE, fault |-> FALSE],
          [user |-> NoUser, error |-> TRUE, fault |-> FALSE]}
    ELSE {[user |-> caller, error |-> FALSE, fault |-> FALSE],
          [user |-> NoUser, error |-> TRUE, fault |-> TRUE]}

(* ---------------- strings ---------------- *)

\* A string is lead spaces, then body copies of the character ch, then
\* trail spaces; body = 0 is a string of spaces only (written with
\* trail = 0 and ch = "").
Str(lead, ch, body, trail) ==
  [lead |-> lead, ch |-> ch, body |-> body, trail |-> trail]

EmptyStr == Str(0, "", 0, 0)

Spaces(n) == Str(n, "", 0, 0)

\* String.prototype.length
Length(s) == s.lead + s.body + s.trail

\* String.prototype.trim
Trim(s) == IF s.body = 0 THEN EmptyStr ELSE Str(0, s.ch, s.body, 0)

\* !s for a string: only the empty string is falsy
Falsy(s) == Length(s) = 0

\* formData.getAll("options").filter(Boolean)
FilterBoolean(opts) == SelectSeq(opts, LAMBDA o : ~Falsy(o))

\* the options stored as submitted
MapTrimOff(opts) == opts

\* options.map(opt => opt.trim())
MapTrim(opts) == [i \in 1..Len(opts) |-> Trim(opts[i])]

(* ---------------- input validation ---------------- *)

OK == "ok"

\* the option the for-loop of createPoll / updatePoll rejects first, or 0
FirstBadOption(options) ==
  LET bad == {i \in 1..Len(options) :
                \/ Falsy(options[i])
                \/ Length(Trim(options[i])) = 0
                \/ Length(options[i]) > MaxOptionLen}
  IN IF bad = {} THEN 0 ELSE CHOOSE i \in bad : \A j \in bad : i <= j

OptionError(option) ==
  IF Falsy(option) \/ Length(Trim(option)) = 0
    THEN "All options must have text."
    ELSE IF Length(option) > MaxOptionLen
      THEN "Options must be less than 200 characters."
      ELSE OK

\* the validation block shared by createPoll, updatePoll, POST /api/polls and
\* PUT /api/polls/[id]; options is the list after filter(Boolean)
ValidatePoll(question, options) ==
  IF Falsy(question) \/ Length(Trim(question)) = 0
    THEN "Question is required."
  ELSE IF Length(question) > MaxQuestionLen
    THEN "Question must be less than 500 characters."
  ELSE IF Len(options) < MinOptions
    THEN "Please provide at least two options."
  ELSE IF Len(options) > MaxOptions
    THEN "Maximum 10 options allowed."
  ELSE IF FirstBadOption(options) # 0
    THEN OptionError(options[FirstBadOption(options)])
  ELSE OK

(* ---------------- the record store (README.md schema) ---------------- *)

\* rows of table polls, keyed by id: [id, user_id, question, options, created_at]
\* rows of table votes: [id, poll_id, user_id, option_index]; user_id is NoUser
\* (SQL NULL) for an anonymous vote

PollIds == 1..MaxPolls

\* CHECK (char_length(question) <= 500) and
\* CHECK (array_length(options, 1) BETWEEN 2 AND 10); array_length of an empty
\* array is NULL, and a CHECK passes on NULL
PollChecks(question, options) ==
  /\ Length(question) <= MaxQuestionLen
  /\ Len(options) = 0 \/ (MinOptions <= Len(options) /\ Len(options) <= MaxOptions)

\* CREATE POLICY "Users can create their own polls" ... WITH CHECK (auth.uid() = user_id)
PolicyInsertPoll(uid, user_id) == rls => uid = user_id

\* CREATE POLICY "Users can update their own polls" ... USING (auth.uid() = user_id)
PolicyUpdatePoll(uid, row) == rls => uid = row.user_id

\* CREATE POLICY "Users can delete their own polls" ... USING (auth.uid() = user_id)
PolicyDeletePoll(uid, row) == rls => uid = row.user_id

\* a votes table without the reference to polls
VoteForeignKeyOff(poll_id) == TRUE

\* votes.poll_id REFERENCES polls(id)
VoteForeignKey(poll_id) == poll_id \in DOMAIN polls

\* votes: CHECK (option_index >= 0)
VoteCheck(option_index) == option_index >= 0

\* a votes table without the uniqueness constraint
VoteUniqueOff(poll_id, user_id) == TRUE

\* a uniqueness constraint under which NULL user_ids are equal to each other
VoteUniqueNullsEqual(poll_id, user_id) ==
  ~ \E v \in votes : v.poll_id = poll_id /\ v.user_id = user_id

\* votes: UNIQUE(poll_id, user_id); rows whose user_id is NULL never conflict
VoteUnique(poll_id, user_id) ==
  \/ user_id = NoUser
  \/ ~ \E v \in votes : v.poll_id = poll_id /\ v.user_id = user_id

\* a reference without ON DELETE CASCADE
CascadeVotesNone(ids) == votes

\* the votes left after deleting the polls in ids (poll_id ... ON DELETE CASCADE)
CascadeVotes(ids) == {v \in votes : v.poll_id \notin ids}

\* of the polls a DELETE's filter matches, those it removes for session uid
DeletedIds(uid, matched) ==
  {id \in matched : PolicyDeletePoll(uid, polls[id])}

\* of the polls an UPDATE's filter matches, those it rewrites for session uid
UpdatedIds(uid, matched) ==
  {id \in matched : PolicyUpdatePoll(uid, polls[id])}

\* .order("created_at", { ascending: false }) over a set of rows
RECURSIVE OrderDesc(_)
OrderDesc(rows) ==
  IF rows = {} THEN <<>>
  ELSE LET top == CHOOSE r \in rows : \A o \in rows : o.created_at <= r.created_at
       IN <<top>> \o OrderDesc(rows \ {top})

(* ---------------- requests and results ---------------- *)

\* the two entry points: a server action of poll-actions.ts, or the route
\* handler of app/api that corresponds to it
Entries == {"action", "route"}

NULL == "null"

\* HTTP status of a route response; a server action returns no status
Status(entry, code) == IF entry = "route" THEN code ELSE 0

\* error.message of a failed store call
StoreDetail == "store: internal error detail"

NoCall ==
  [op |-> "none", entry |-> "action", caller |-> Anon, pollId |-> 0,
   question |-> EmptyStr, options |-> <<>>, optionIndex |-> 0,
   error |-> NULL, status |-> 0, rows |-> <<>>, canEdit |-> FALSE,
   revalidated |-> {}, fault |-> FALSE, path |-> <<>>, redirect |-> <<>>]

Req(op, entry, caller) ==
  [NoCall EXCEPT !.op = op, !.entry = entry, !.caller = caller]

\* an invocation returning the error msg (route: with status code)
Failed(req, msg, code) ==
  [req EXCEPT !.error = msg, !.status = Status(req.entry, code)]

\* an invocation returning { error: null } (route: with status code)
Succeeded(req, code) ==
  [req EXCEPT !.error = NULL, !.status = Status(req.entry, code)]

\* the error kind of a returned message, as the route handlers pair each
\* message with a status: 400, 401, 403, 404, 409, 500
Kind(error) ==
  CASE error = NULL -> "Success"
    [] error \in {"Question is required.",
                  "Question must be less than 500 characters.",
                  "Please provide at least two options.",
                  "Maximum 10 options allowed.",
                  "All options must have text.",
                  "Options must be less than 200 characters.",
                  "Invalid vote data.",
                  "Invalid option selected."} -> "InvalidInput"
    [] error \in {"Authentication failed.",
                  "Authentication required.",
                  "Not authenticated",
                  "You must be logged in to create a poll.",
                  "You must be logged in to update a poll.",
                  "You must be logged in to delete a poll."} -> "Unauthenticated"
    [] error \in {"Admin access required.",
                  "You can only edit your own polls."} -> "Forbidden"
    [] error = "Poll not found." -> "NotFound"
    [] error = "You have already voted on this poll." -> "Conflict"
    [] OTHER -> "StoreFailure"

\* locals of a handler suspended between two store round trips
\* req is the invocation, user the identity getUser resolved for it
Pending(pc, req, user) == [pc |-> pc, req |-> req, user |-> user]

\* Past authentication the entry point of a handler decides the status of
\* its response and nothing else, so the locals of a suspended handler leave
\* it open and the step that builds the response draws it.
Locals(req) == [req EXCEPT !.entry = NULL]

(* ---------------- inputs ---------------- *)

QuestionA == Str(0, "q", 5, 0)
QuestionB == Str(1, "r", 4, 1)
OptionsA == <<Str(0, "a", 3, 0), Str(0, "b", 4, 0)>>
OptionsB == <<Str(1, "c", 2, 1), Str(0, "d", 1, 0), Str(0, "e", 1, 0)>>

\* the question / options pairs of the interleaving profile
RaceInputs ==
  {[question |-> QuestionA, options |-> OptionsA],
   [question |-> QuestionB, options |-> OptionsB],
   [question |-> Spaces(1), options |-> OptionsA]}

In(question, options) == [question |-> question, options |-> options]

Chars(n) == Str(0, "x", n, 0)

\* n options of distinct text
Distinct(n) == [i \in 1..n |-> Str(0, "o", i, 0)]

\* questions around the limits, each with two plain options
QuestionInputs ==
  {In(q, OptionsA) :
     q \in {Chars(MaxQuestionLen), Chars(MaxQuestionLen + 1),
            Str(1, "x", MaxQuestionLen, 0), Str(1, "x", MaxQuestionLen - 1, 0),
            EmptyStr, Spaces(1), Spaces(MaxQuestionLen + 1)}}

\* option lists around the limits, each with a plain question
OptionInputs ==
  {In(QuestionA, o) :
     o \in {<<>>, <<Chars(1)>>, <<Chars(1), EmptyStr>>,
            <<Chars(1), Chars(2), EmptyStr>>, <<Chars(1), Spaces(1)>>,
            Distinct(MaxOptions), Distinct(MaxOptions + 1),
            Append(Distinct(MaxOptions), EmptyStr),
            <<Chars(1), Chars(MaxOptionLen)>>, <<Chars(1), Chars(MaxOptionLen + 1)>>,
            <<Chars(1), Str(1, "x", MaxOptionLen, 0)>>,
            <<Str(0, "x", MaxOptionLen - 1, 1), Chars(1)>>}}

\* inputs that break several rules at once
MixedInputs ==
  {In(EmptyStr, <<Chars(1)>>), In(Chars(MaxQuestionLen + 1), <<Chars(1)>>),
   In(QuestionA, <<Chars(MaxOptionLen + 1), Spaces(1)>>),
   In(QuestionA, <<Spaces(1), Chars(MaxOptionLen + 1)>>)}

\* the question / options pairs of the validation profile
RichInputs == RaceInputs \cup QuestionInputs \cup OptionInputs \cup MixedInputs

PollInputs == IF profile = "race" THEN RaceInputs ELSE RichInputs

\* the option indexes a vote request carries: negative, valid for every poll,
\* valid for three options only, valid for none
OptionIndexes == {0 - 1, 0, 2, 3}

(* ---------------- state ---------------- *)

\* a session of the auth client, and none
Session(u, t) == [user |-> u, token |-> t]
NoSession == Session(NoUser, 0)

\* AuthProvider not rendered
NoProvider ==
  [session |-> NoSession, user |-> NoUser, loading |-> TRUE, mounted |-> FALSE,
   subscribed |-> FALSE, getUser |-> "none", data |-> NoUser, initial |-> FALSE,
   auth |-> NoSession, events |-> 0, last |-> NoSession]

\* the admin page not rendered
NoPage ==
  [user |-> Anon, polls |-> <<>>, loading |-> TRUE, deleteLoading |-> 0,
   error |-> NULL, success |-> NULL, fetchAllPolls |-> "none", handleDelete |-> {}]

Init ==
  /\ rls \in BOOLEAN
  /\ profile = "race"
  /\ polls = <<>>
  /\ votes = {}
  /\ nextPollId = 1
  /\ nextVoteId = 1
  /\ inflight = EmptyBag
  /\ call = NoCall
  /\ started = 0
  /\ provider = NoProvider
  /\ page = NoPage

\* the same store, served the inputs of the validation profile
InitInput ==
  /\ rls \in BOOLEAN
  /\ profile = "input"
  /\ polls = <<>>
  /\ votes = {}
  /\ nextPollId = 1
  /\ nextVoteId = 1
  /\ inflight = EmptyBag
  /\ call = NoCall
  /\ started = 0
  /\ provider = NoProvider
  /\ page = NoPage

store == <<polls, votes, nextPollId, nextVoteId>>

\* the deployment does not change while requests are served, and a handler
\* does not reach into the state of a browser component
config == <<rls, profile, provider, page>>

\* a handler is invoked
CallCap ==
  CASE profile = "race" -> MaxCalls
    [] profile = "page" -> MaxPageCalls
    [] OTHER -> MaxInputCalls

Start == call = NoCall /\ started < CallCap /\ started' = started + 1

\* a suspended handler goes on
Continue == call = NoCall /\ UNCHANGED started

\* a handler that returns c and leaves a write behind: the votes are gone
ReturnAfterWrite(c) ==
  /\ call' = c
  /\ votes' = {}
  /\ UNCHANGED <<config, polls, nextPollId, nextVoteId, inflight>>

\* the handler returns c without having changed anything
Return(c) == call' = c /\ UNCHANGED <<config, store, inflight>>

(* ---------------- createPoll / POST /api/polls ---------------- *)

\* an action that hands a failed session lookup on as a store failure
AuthErrorAsStoreFailure(op, entry) ==
  IF entry = "action" THEN StoreDetail
  ELSE CASE op = "createPoll" -> "You must be logged in to create a poll."
         [] op = "updatePoll" -> "You must be logged in to update a poll."
         [] OTHER -> "You must be logged in to delete a poll."

AuthError(op, entry) ==
  IF entry = "action" THEN "Authentication failed."
  ELSE CASE op = "createPoll" -> "You must be logged in to create a poll."
         [] op = "updatePoll" -> "You must be logged in to update a poll."
         [] OTHER -> "You must be logged in to delete a poll."

\* a handler that answers a caller without session with { error: null }
NoUserErrorNone(op) == NULL

NoUserError(op) ==
  CASE op = "createPoll" -> "You must be logged in to create a poll."
    [] op = "updatePoll" -> "You must be logged in to update a poll."
    [] OTHER -> "You must be logged in to delete a poll."

\* the row createPoll inserts
NewPoll(uid, question, options) ==
  [id |-> nextPollId, user_id |-> uid, question |-> Trim(question),
   options |-> MapTrim(options), created_at |-> nextPollId]

CreatePoll ==
  /\ Start
  /\ \E entry \in Entries, caller \in Callers, in \in PollInputs, fault \in BOOLEAN :
     \E auth \in getUser(caller) :
       LET req == [Req("createPoll", entry, caller) EXCEPT
                     !.question = in.question, !.options = in.options,
                     !.fault = auth.fault]
           options == FilterBoolean(in.options)
           v == ValidatePoll(in.question, options)
           row == NewPoll(auth.user, in.question, options)
       IN IF v # OK THEN Return(Failed(req, v, 400))
          ELSE IF auth.error THEN Return(Failed(req, AuthError("createPoll", entry), 401))
          ELSE IF auth.user = NoUser THEN Return(Failed(req, NoUserError("createPoll"), 401))
          ELSE IF \/ fault
                  \/ ~PollChecks(row.question, row.options)
                  \/ ~PolicyInsertPoll(auth.user, row.user_id)
            THEN Return(Failed([req EXCEPT !.fault = @ \/ fault], "Failed to create poll.", 500))
          ELSE /\ nextPollId <= MaxPolls
               /\ polls' = [id \in DOMAIN polls \cup {nextPollId} |->
                              IF id = nextPollId THEN row ELSE polls[id]]
               /\ nextPollId' = nextPollId + 1
               /\ call' = Succeeded([req EXCEPT !.revalidated = {"/polls"}], 201)
               /\ UNCHANGED <<config, votes, nextVoteId, inflight>>


(* ---------------- deletePoll / DELETE /api/polls/[id] ---------------- *)

\* the delete without its ownership filter
DeletePollFilterAnyOwner(row, id, uid) == row.id = id

\* .eq("id", id).eq("user_id", user.id)
DeletePollFilter(row, id, uid) == row.id = id /\ row.user_id = uid

DeletePoll ==
  /\ Start
  /\ \E entry \in Entries, caller \in Callers, id \in PollIds, fault \in BOOLEAN :
     \E auth \in getUser(caller) :
       LET req == [Req("deletePoll", entry, caller) EXCEPT
                     !.pollId = id, !.fault = auth.fault]
           gone == DeletedIds(auth.user, {p \in DOMAIN polls : DeletePollFilter(polls[p], id, auth.user)})
       IN IF auth.error THEN Return(Failed(req, AuthError("deletePoll", entry), 401))
          ELSE IF auth.user = NoUser THEN Return(Failed(req, NoUserError("deletePoll"), 401))
          ELSE IF fault
            THEN Return(Failed([req EXCEPT !.fault = TRUE],
                   "Failed to delete poll. You can only delete your own polls.", 500))
          ELSE /\ polls' = [p \in DOMAIN polls \ gone |-> polls[p]]
               /\ votes' = CascadeVotes(gone)
               /\ call' = Succeeded([req EXCEPT !.revalidated = {"/polls"}], 200)
               /\ UNCHANGED <<config, nextPollId, nextVoteId, inflight>>

(* ------- adminDeletePoll / DELETE /api/admin/polls/[id] ------- *)

\* .eq("id", id)
AdminDeleteFilter(row, id) == row.id = id

AdminDeletePoll ==
  /\ Start
  /\ \E entry \in Entries, caller \in Callers, id \in PollIds, fault \in BOOLEAN :
     \E auth \in getUser(caller), again \in getUser(caller) :
       LET req == [Req("adminDeletePoll", entry, caller) EXCEPT
                     !.pollId = id, !.fault = auth.fault \/ again.fault]
           gone == DeletedIds(auth.user, {p \in DOMAIN polls : AdminDeleteFilter(polls[p], id)})
       IN IF auth.error \/ auth.user = NoUser
            THEN Return(Failed(req, "Authentication required.", 401))
          ELSE IF ~isUserAdmin(again.user)
            THEN Return(Failed(req, "Admin access required.", 403))
          ELSE IF fault
            THEN Return(Failed([req EXCEPT !.fault = TRUE], "Failed to delete poll.", 500))
          ELSE /\ polls' = [p \in DOMAIN polls \ gone |-> polls[p]]
               /\ votes' = CascadeVotes(gone)
               /\ call' = Succeeded([req EXCEPT !.revalidated = {"/admin"}], 200)
               /\ UNCHANGED <<config, nextPollId, nextVoteId, inflight>>

(* ---------------- the read handlers ---------------- *)

Rows(ids) == {polls[id] : id \in ids}

\* a select without the ownership filter
OwnPollsFilterOff(row, uid) == TRUE

\* .eq("user_id", user.id)
OwnPollsFilter(row, uid) == row.user_id = uid

\* getUserPolls / GET /api/polls
GetUserPolls ==
  /\ Start
  /\ \E entry \in Entries, caller \in Callers, fault \in BOOLEAN :
     \E auth \in getUser(caller) :
       LET req == [Req("getUserPolls", entry, caller) EXCEPT !.fault = auth.fault]
           own == {id \in DOMAIN polls : OwnPollsFilter(polls[id], auth.user)}
       IN IF auth.user = NoUser THEN Return(Failed(req, "Not authenticated", 401))
          ELSE IF fault
            THEN Return(Failed([req EXCEPT !.fault = TRUE], StoreDetail, 500))
          ELSE Return(Succeeded([req EXCEPT !.rows = OrderDesc(Rows(own))], 200))

\* getAllPolls / GET /api/admin/polls
GetAllPolls ==
  /\ Start
  /\ \E entry \in Entries, caller \in Callers, fault \in BOOLEAN :
     \E auth \in getUser(caller), again \in getUser(caller) :
       LET req == [Req("getAllPolls", entry, caller) EXCEPT
                     !.fault = auth.fault \/ again.fault]
       IN IF auth.error \/ auth.user = NoUser
            THEN Return(Failed(req, "Authentication required.", 401))
          ELSE IF ~isUserAdmin(again.user)
            THEN Return(Failed(req, "Admin access required.", 403))
          ELSE IF fault
            THEN Return(Failed([req EXCEPT !.fault = TRUE], "Failed to fetch polls.", 500))
          ELSE Return(Succeeded([req EXCEPT !.rows = OrderDesc(Rows(DOMAIN polls))], 200))

\* edit permission granted to every signed-in user
CanEditAnyUser(user, row) == user # NoUser

\* canEdit: user?.id === data.user_id
CanEdit(user, row) == user # NoUser /\ user = row.user_id

\* getPollById / GET /api/polls/[id]
GetPollById ==
  /\ Start
  /\ \E entry \in Entries, caller \in Callers, id \in PollIds, fault \in BOOLEAN :
     \E auth \in getUser(caller) :
       LET req == [Req("getPollById", entry, caller) EXCEPT
                     !.pollId = id, !.fault = auth.fault]
       IN IF fault \/ id \notin DOMAIN polls
            THEN Return(Failed([req EXCEPT !.fault = @ \/ fault], "Poll not found.", 404))
          ELSE Return(Succeeded([req EXCEPT !.rows = <<polls[id]>>,
                                            !.canEdit = CanEdit(auth.user, polls[id])], 200))

(* ---------------- updatePoll / PUT /api/polls/[id] ---------------- *)

\* the handler is suspended with p added to / removed from those in flight
Suspend(p) == inflight' = inflight (+) SetToBag({p})
Resume(p) == inflight' = inflight (-) SetToBag({p})

\* .eq("id", pollId).eq("user_id", user.id)
UpdatePollFilter(row, id, uid) == row.id = id /\ row.user_id = uid

\* the ownership read of updatePoll on the polls P: .single() on the row with
\* the id, then existingPoll.user_id !== user.id
OwnershipCheck(P, id, uid) ==
  IF id \notin DOMAIN P THEN "Poll not found."
  ELSE IF P[id].user_id # uid THEN "You can only edit your own polls."
  ELSE OK

\* validation, authentication and the ownership read
UpdatePollRead ==
  /\ Start
  /\ \E entry \in Entries, caller \in Callers, id \in PollIds,
        in \in PollInputs, fault \in BOOLEAN :
     \E auth \in getUser(caller) :
       LET req == [Req("updatePoll", entry, caller) EXCEPT
                     !.pollId = id, !.question = in.question, !.options = in.options,
                     !.fault = auth.fault]
           v == ValidatePoll(in.question, FilterBoolean(in.options))
       IN IF v # OK THEN Return(Failed(req, v, 400))
          ELSE IF auth.error THEN Return(Failed(req, AuthError("updatePoll", entry), 401))
          ELSE IF auth.user = NoUser THEN Return(Failed(req, NoUserError("updatePoll"), 401))
          ELSE IF fault \/ OwnershipCheck(polls, id, auth.user) = "Poll not found."
            THEN Return(Failed([req EXCEPT !.fault = @ \/ fault], "Poll not found.", 404))
          ELSE IF OwnershipCheck(polls, id, auth.user) # OK
            THEN Return(Failed(req, OwnershipCheck(polls, id, auth.user), 403))
          ELSE /\ Suspend(Pending("update", Locals(req), auth.user))
               /\ UNCHANGED <<config, store, call>>

\* an update that writes the row anew, creation time included
UpdatedRowCreatedAnew(row, question, options) ==
  [row EXCEPT !.question = question, !.options = options, !.created_at = 0]

\* .update({ question, options }) on a matched row
UpdatedRow(row, question, options) ==
  [row EXCEPT !.question = question, !.options = options]

\* the conditional write
UpdatePollWrite ==
  /\ Continue
  /\ \E p \in BagToSet(inflight), entry \in Entries, fault \in BOOLEAN :
       LET req == [p.req EXCEPT !.entry = entry]
           options == FilterBoolean(p.req.options)
           question == Trim(p.req.question)
           hit == UpdatedIds(p.user, {id \in DOMAIN polls :
                                      UpdatePollFilter(polls[id], p.req.pollId, p.user)})
       IN /\ p.pc = "update"
          /\ Resume(p)
          /\ IF fault \/ (hit # {} /\ ~PollChecks(question, MapTrim(options)))
               THEN /\ call' = Failed([req EXCEPT !.fault = @ \/ fault], "Failed to update poll.", 500)
                    /\ UNCHANGED <<config, store>>
               ELSE /\ polls' = [id \in DOMAIN polls |->
                                   IF id \in hit
                                     THEN UpdatedRow(polls[id], question, MapTrim(options))
                                     ELSE polls[id]]
                    /\ call' = Succeeded(req, 200)
                    /\ UNCHANGED <<config, votes, nextPollId, nextVoteId>>

(* ---------------- submitVote / POST /api/polls/[id]/vote ---------------- *)

\* a handler without the check of the index against the poll
InvalidOptionOff(optionIndex, options) == FALSE

\* optionIndex >= poll.options.length
InvalidOption(optionIndex, options) == optionIndex >= Len(options)

\* input check, the read of the poll's options, and getUser
SubmitVoteRead ==
  /\ Start
  /\ \E entry \in Entries, caller \in Callers, id \in PollIds,
        optionIndex \in OptionIndexes, fault \in BOOLEAN :
     \E auth \in getUser(caller) :
       LET req == [Req("submitVote", entry, caller) EXCEPT
                     !.pollId = id, !.optionIndex = optionIndex, !.fault = auth.fault]
       IN IF optionIndex < 0 THEN Return(Failed(req, "Invalid vote data.", 400))
          ELSE IF fault \/ id \notin DOMAIN polls
            THEN Return(Failed([req EXCEPT !.fault = @ \/ fault], "Poll not found.", 404))
          ELSE IF InvalidOption(optionIndex, polls[id].options)
            THEN Return(Failed(req, "Invalid option selected.", 400))
          ELSE /\ Suspend(Pending(IF auth.user # NoUser THEN "check" ELSE "insert",
                                  Locals(req), auth.user))
               /\ UNCHANGED <<config, store, call>>

\* a select that never finds a vote
ExistingVotesNone(poll_id, user_id) == {}

\* the rows .eq("poll_id", pollId).eq("user_id", user.id) selects
ExistingVotes(poll_id, user_id) ==
  {v \in votes : v.poll_id = poll_id /\ v.user_id = user_id}

\* the duplicate-vote check; .single() yields a row only when exactly one matches
SubmitVoteCheck ==
  /\ Continue
  /\ \E p \in BagToSet(inflight), entry \in Entries, fault \in BOOLEAN :
       /\ p.pc = "check"
       /\ IF ~fault /\ Cardinality(ExistingVotes(p.req.pollId, p.user)) = 1
            THEN /\ Resume(p)
                 /\ call' = Failed([p.req EXCEPT !.entry = entry],
                                   "You have already voted on this poll.", 409)
                 /\ UNCHANGED <<config, store>>
            ELSE /\ inflight' = (inflight (-) SetToBag({p}))
                                  (+) SetToBag({[p EXCEPT !.pc = "insert",
                                                          !.req.fault = @ \/ fault]})
                 /\ UNCHANGED <<config, store, call>>

\* the insert into votes
SubmitVoteInsert ==
  /\ Continue
  /\ \E p \in BagToSet(inflight), entry \in Entries, fault \in BOOLEAN :
       LET req == [p.req EXCEPT !.entry = entry]
           row == [id |-> nextVoteId, poll_id |-> p.req.pollId, user_id |-> p.user,
                   option_index |-> p.req.optionIndex]
       IN /\ p.pc = "insert"
          /\ Resume(p)
          /\ IF \/ fault
                \/ ~VoteForeignKey(row.poll_id)
                \/ ~VoteCheck(row.option_index)
                \/ ~VoteUnique(row.poll_id, row.user_id)
               THEN /\ call' = Failed([req EXCEPT !.fault = @ \/ fault], "Failed to submit vote.", 500)
                    /\ UNCHANGED <<config, store>>
               ELSE /\ votes' = votes \cup {row}
                    /\ nextVoteId' = nextVoteId + 1
                    /\ call' = Succeeded(req, 200)
                    /\ UNCHANGED <<config, polls, nextPollId>>

(* ---------------- middleware.ts / updateSession ---------------- *)

\* A pathname is the sequence of its segments; "[id]" stands for a poll id,
\* as in the directory names of app/. No segment used here is a proper prefix
\* of another, so startsWith on the pathname is equality on a segment.
PollApiPath == <<"api", "polls", "[id]">>
VotePath == <<"api", "polls", "[id]", "vote">>
PollPagePath == <<"polls", "[id]">>
LoginPath == <<"login">>

Pathnames ==
  {PollApiPath, VotePath, PollPagePath, LoginPath, <<"register">>,
   <<"auth", "callback">>, <<"polls">>, <<"admin">>, <<"api", "admin", "polls">>,
   <<"_next", "static", "main.js">>, <<"logo.svg">>}

\* config.matcher: the pathnames the middleware runs on
Matcher(pathname) ==
  /\ ~(Len(pathname) >= 2 /\ pathname[1] = "_next" /\ pathname[2] \in {"static", "image"})
  /\ pathname[1] \notin {"favicon.ico", "login", "register"}
  /\ pathname[Len(pathname)] \notin {"logo.svg"}

\* updateSession: the pathname the request is redirected to, or <<>> when it
\* is passed on to its handler
updateSession(user, pathname) ==
  IF /\ user = NoUser
     /\ pathname[1] # "login"
     /\ pathname[1] # "auth"
    THEN LoginPath
    ELSE <<>>

\* an HTTP request meets the middleware in front of the pages and routes
Middleware ==
  /\ Start
  /\ \E caller \in Callers, pathname \in Pathnames :
     \E auth \in getUser(caller) :
       LET req == [Req("middleware", "route", caller) EXCEPT !.path = pathname]
           to == updateSession(auth.user, pathname)
       IN IF ~Matcher(pathname) THEN Return(req)
          ELSE Return([req EXCEPT !.fault = auth.fault, !.redirect = to,
                                  !.status = IF to = <<>> THEN 0 ELSE 307])

\* the response reaches the client
Respond ==
  /\ call # NoCall
  /\ call' = NoCall
  /\ UNCHANGED <<config, store, inflight, started>>

Next ==
  \/ CreatePoll
  \/ DeletePoll
  \/ AdminDeletePoll
  \/ GetUserPolls
  \/ GetAllPolls
  \/ GetPollById
  \/ UpdatePollRead
  \/ UpdatePollWrite
  \/ SubmitVoteRead
  \/ SubmitVoteCheck
  \/ SubmitVoteInsert
  \/ Middleware
  \/ Respond

Spec == Init /\ [][Next]_vars

SpecInput == InitInput /\ [][Next]_vars

(* ------- AuthProvider, app/lib/context/auth-context.tsx ------- *)

\* the sessions the auth client can hold when the provider is rendered
StoredSessions == {NoSession} \cup {Session(u, 1) : u \in Users}

\* AuthProvider after its first render and the run of its effect: getUser is
\* requested, the listener is subscribed, and the auth client owes the
\* listener its INITIAL_SESSION event
AuthProviderMounted(stored) ==
  [NoProvider EXCEPT !.mounted = TRUE, !.subscribed = TRUE,
                     !.getUser = "requested", !.initial = TRUE, !.auth = stored]

InitAuthProvider ==
  /\ rls = FALSE
  /\ profile = "provider"
  /\ polls = <<>>
  /\ votes = {}
  /\ nextPollId = 1
  /\ nextVoteId = 1
  /\ inflight = EmptyBag
  /\ call = NoCall
  /\ started = 0
  /\ provider \in {AuthProviderMounted(stored) : stored \in StoredSessions}
  /\ page = NoPage

\* a step of the provider or of the auth client
ProviderStep == UNCHANGED <<rls, profile, store, inflight, call, started, page>>

\* supabase.auth.getUser() is answered: the user of the session the auth
\* client holds at that moment, or an error and no user
GetUserAnswered ==
  /\ provider.getUser = "requested"
  /\ \E error \in BOOLEAN :
       provider' = [provider EXCEPT
                      !.getUser = "answered",
                      !.data = IF error THEN NoUser ELSE provider.auth.user]
  /\ ProviderStep

\* getUser goes on after its await
GetUserResumed ==
  /\ provider.getUser = "answered"
  /\ provider' = IF provider.mounted
                   THEN [provider EXCEPT !.getUser = "done",
                                         !.user = provider.data,
                                         !.session = NoSession,
                                         !.loading = FALSE]
                   ELSE [provider EXCEPT !.getUser = "done"]
  /\ ProviderStep

\* the callback given to onAuthStateChange, called with session
onAuthStateChange(p, session) ==
  [p EXCEPT !.session = session, !.user = session.user]

\* the auth client now holds session and tells the listener
Emit(p, session) ==
  [onAuthStateChange(p, session) EXCEPT
     !.auth = session, !.events = @ + 1, !.last = session]

Listening == provider.subscribed /\ provider.events < MaxEvents

\* INITIAL_SESSION, once after the subscription
InitialSession ==
  /\ Listening
  /\ provider.initial
  /\ provider' = [Emit(provider, provider.auth) EXCEPT !.initial = FALSE]
  /\ ProviderStep

\* SIGNED_IN
SignedIn ==
  /\ Listening
  /\ ~provider.initial
  /\ \E u \in Users :
       provider' = Emit(provider, Session(u, provider.auth.token + 1))
  /\ ProviderStep

\* SIGNED_OUT
SignedOut ==
  /\ Listening
  /\ ~provider.initial
  /\ provider.auth # NoSession
  /\ provider' = Emit(provider, NoSession)
  /\ ProviderStep

\* TOKEN_REFRESHED
TokenRefreshed ==
  /\ Listening
  /\ ~provider.initial
  /\ provider.auth # NoSession
  /\ provider' = Emit(provider, Session(provider.auth.user, provider.auth.token + 1))
  /\ ProviderStep

\* the cleanup of the effect
Unmount ==
  /\ provider.mounted
  /\ provider' = [provider EXCEPT !.mounted = FALSE, !.subscribed = FALSE]
  /\ ProviderStep

NextAuthProvider ==
  \/ GetUserAnswered
  \/ GetUserResumed
  \/ InitialSession
  \/ SignedIn
  \/ SignedOut
  \/ TokenRefreshed
  \/ Unmount

SpecAuthProvider == InitAuthProvider /\ [][NextAuthProvider]_vars

(* ------- the admin page, app/(dashboard)/admin/page.tsx ------- *)

\* the polls of the store the page is opened on, owned by owners
SeededPolls(owners) ==
  [id \in PollIds |->
     [id |-> id, user_id |-> owners[id], question |-> Trim(QuestionA),
      options |-> MapTrim(OptionsA), created_at |-> id]]

\* the page of the viewer u after its first render and the run of its
\* effect: fetchAllPolls has requested getAllPolls
AdminPageMounted(u) ==
  [NoPage EXCEPT !.user = u, !.fetchAllPolls = "requested"]

InitAdminPage ==
  /\ rls \in BOOLEAN
  /\ profile = "page"
  /\ \E owners \in [PollIds -> Users] : polls = SeededPolls(owners)
  /\ votes = {}
  /\ nextPollId = MaxPolls + 1
  /\ nextVoteId = 1
  /\ inflight = EmptyBag
  /\ call = NoCall
  /\ started = 0
  /\ provider = NoProvider
  /\ page \in {AdminPageMounted(u) : u \in AllCallers}

\* a step of the page changes the page, and takes a response when it resumes
PageStep == UNCHANGED <<rls, profile, store, inflight, started, provider>>

\* the server action op, called by the page's viewer, has returned
Answered(op) ==
  /\ call.op = op
  /\ call.entry = "action"
  /\ call.caller = page.user

\* the ids of the polls on display
Shown(p) == {p.polls[i].id : i \in 1..Len(p.polls)}

\* polls.filter((poll) => poll.id !== pollId)
FilterOut(rows, pollId) == SelectSeq(rows, LAMBDA poll : poll.id # pollId)

\* fetchAllPolls goes on after await getAllPolls()
FetchAllPollsResumed ==
  /\ page.fetchAllPolls = "requested"
  /\ Answered("getAllPolls")
  /\ page' = IF call.error # NULL
               THEN [page EXCEPT !.fetchAllPolls = "done", !.error = call.error,
                                 !.loading = FALSE]
               ELSE [page EXCEPT !.fetchAllPolls = "done", !.polls = call.rows,
                                 !.loading = FALSE]
  /\ call' = NoCall
  /\ PageStep

\* a click on the delete button of a displayed poll: handleDelete up to its
\* await, with the polls of the render it was created in
HandleDelete ==
  /\ call = NoCall
  /\ ~page.loading
  /\ \E pollId \in Shown(page) :
       /\ page.deleteLoading # pollId
       /\ page' = [page EXCEPT
                     !.deleteLoading = pollId, !.error = NULL, !.success = NULL,
                     !.handleDelete = @ \cup {[pollId |-> pollId, polls |-> page.polls]}]
  /\ UNCHANGED call
  /\ PageStep

\* handleDelete goes on after await adminDeletePoll(pollId)
HandleDeleteResumed ==
  /\ Answered("adminDeletePoll")
  /\ \E h \in page.handleDelete :
       /\ call.pollId = h.pollId
       /\ page' = IF call.error # NULL
                    THEN [page EXCEPT !.handleDelete = @ \ {h}, !.error = call.error,
                                      !.deleteLoading = 0]
                    ELSE [page EXCEPT !.handleDelete = @ \ {h},
                                      !.polls = FilterOut(h.polls, h.pollId),
                                      !.success = "Poll deleted successfully!",
                                      !.deleteLoading = 0]
  /\ call' = NoCall
  /\ PageStep

NextAdminPage ==
  \/ GetAllPolls
  \/ AdminDeletePoll
  \/ Respond
  \/ FetchAllPollsResumed
  \/ HandleDelete
  \/ HandleDeleteResumed

SpecAdminPage == InitAdminPage /\ [][NextAdminPage]_vars

(* ======================= the claims ======================= *)

\* a handler returns in this step
Returns == call = NoCall /\ call' # NoCall

VotesOf(poll_id, user_id) ==
  {v \in votes : v.poll_id = poll_id /\ v.user_id = user_id}

\* C1: in every reachable state, for every poll P and every authenticated
\* identity U there is at most one vote with poll_id = P and user_id = U,
\* whatever the interleaving of U's concurrent submitVote requests on P.
C1_OneVotePerUser ==
  \A id \in PollIds, u \in Users : Cardinality(VotesOf(id, u)) <= 1

\* two requests of the same user raced past the duplicate check: the second
\* insert was refused by the store while the user's vote is there
C1_Witness ==
  /\ call.op = "submitVote"
  /\ call.caller \in Users
  /\ ~call.fault
  /\ call.error = "Failed to submit vote."
  /\ call.pollId \in DOMAIN polls
  /\ VotesOf(call.pollId, call.caller) # {}

\* C2 (as claimed): a submitVote of an authenticated identity on an existing
\* poll with an option index in range, with no service fault, returns
\* success or Conflict ("already voted"), never another error kind.
C2_OnlySuccessOrConflict ==
  ( /\ call.op = "submitVote"
    /\ call.caller \in Users
    /\ ~call.fault
    /\ call.pollId \in DOMAIN polls
    /\ call.optionIndex >= 0
    /\ call.optionIndex < Len(polls[call.pollId].options) )
  => Kind(call.error) \in {"Success", "Conflict"}

\* C3: a poll's question and options change only in an updatePoll of its
\* owner, and a poll is removed only by a deletePoll of its owner or by an
\* adminDeletePoll of a caller with the admin capability.
C3_OnlyOwnerOrAdminMutates ==
  [][ \A id \in DOMAIN polls :
        /\ id \notin DOMAIN polls' =>
             /\ call'.pollId = id
             /\ \/ call'.op = "deletePoll" /\ call'.caller = polls[id].user_id
                \/ call'.op = "adminDeletePoll" /\ isUserAdmin(call'.caller)
        /\ (id \in DOMAIN polls' /\ polls'[id] # polls[id]) =>
             /\ call'.op = "updatePoll"
             /\ call'.pollId = id
             /\ call'.caller = polls[id].user_id
             /\ polls'[id] = [polls[id] EXCEPT !.question = polls'[id].question,
                                               !.options = polls'[id].options]
    ]_vars

\* a caller that is neither owner nor admin asked for the deletion of a poll
\* that is still there
C3_Witness ==
  /\ call.op = "deletePoll"
  /\ call.caller \in Users
  /\ ~call.fault
  /\ call.pollId \in DOMAIN polls
  /\ polls[call.pollId].user_id # call.caller
  /\ ~isUserAdmin(call.caller)

\* C4 (as claimed): updatePoll with valid input and deletePoll, called on an
\* existing poll by an authenticated identity that does not own it, return
\* Forbidden.
C4_NonOwnerForbidden ==
  ( /\ call.op \in {"updatePoll", "deletePoll"}
    /\ call.caller \in Users
    /\ ~call.fault
    /\ call.pollId \in DOMAIN polls
    /\ polls[call.pollId].user_id # call.caller
    /\ call.op = "updatePoll" =>
         ValidatePoll(call.question, FilterBoolean(call.options)) = OK )
  => Kind(call.error) = "Forbidden"

\* C5 (as claimed): with the row-level delete policy applied, an
\* adminDeletePoll by an admin that does not own poll P returns success and
\* P is absent afterwards.
C5_AdminDeleteRemoves ==
  [][ ( /\ Returns
        /\ call'.op = "adminDeletePoll"
        /\ rls
        /\ ~call'.fault
        /\ isUserAdmin(call'.caller)
        /\ call'.pollId \in DOMAIN polls
        /\ polls[call'.pollId].user_id # call'.caller )
      => (call'.error = NULL /\ call'.pollId \notin DOMAIN polls')
    ]_vars

\* C6: deletePoll by the owner of P returns success, and afterwards P is
\* absent, getPollById(P) returns "Poll not found." and no vote refers to P.
C6_OwnerDelete ==
  /\ [][ ( /\ Returns
           /\ call'.op = "deletePoll"
           /\ ~call'.fault
           /\ call'.pollId \in DOMAIN polls
           /\ polls[call'.pollId].user_id = call'.caller )
         => /\ call'.error = NULL
            /\ call'.pollId \notin DOMAIN polls'
            /\ \A v \in votes' : v.poll_id # call'.pollId
       ]_vars
  /\ [][ \A id \in PollIds :
           (id < nextPollId /\ id \notin DOMAIN polls) =>
             /\ id \notin DOMAIN polls'
             /\ \A v \in votes' : v.poll_id # id
       ]_vars
  /\ [] ( (call.op = "getPollById" /\ call.pollId \notin DOMAIN polls)
            => call.error = "Poll not found." )

\* the owner deleted a poll on which a vote had been cast
C6_Witness ==
  /\ call.op = "deletePoll"
  /\ call.error = NULL
  /\ call.pollId < nextPollId
  /\ call.pollId \notin DOMAIN polls
  /\ nextPollId = 2
  /\ nextVoteId = 2
  /\ votes = {}

\* C7: every vote refers to a poll that is in the store, also when a
\* submitVote that has read the poll inserts after the poll was deleted.
C7_VotesHavePolls == \A v \in votes : v.poll_id \in DOMAIN polls

\* a submitVote read the poll, the poll was deleted, and the insert was refused
C7_Witness ==
  /\ call.op = "submitVote"
  /\ ~call.fault
  /\ call.error = "Failed to submit vote."
  /\ call.pollId \notin DOMAIN polls

\* the question / options of an invocation are within the documented limits
\* once trimmed
ValidAfterTrim(question, options) ==
  /\ 1 <= Length(Trim(question)) /\ Length(Trim(question)) <= MaxQuestionLen
  /\ MinOptions <= Len(options) /\ Len(options) <= MaxOptions
  /\ \A i \in 1..Len(options) :
       1 <= Length(Trim(options[i])) /\ Length(Trim(options[i])) <= MaxOptionLen

\* C8 (as claimed): createPoll by an authenticated caller, with a question of
\* 1 to 500 characters after trimming and 2 to 10 options of 1 to 200
\* characters after trimming, succeeds and stores the trimmed question, the
\* trimmed options in their order, and the caller as owner.
C8_ValidInputCreates ==
  ( /\ call.op = "createPoll"
    /\ call.caller \in Users
    /\ ~call.fault
    /\ ValidAfterTrim(call.question, call.options) )
  => /\ call.error = NULL
     /\ (nextPollId - 1) \in DOMAIN polls
     /\ polls[nextPollId - 1].question = Trim(call.question)
     /\ polls[nextPollId - 1].options = MapTrim(call.options)
     /\ polls[nextPollId - 1].user_id = call.caller

\* C9 (as claimed): createPoll and updatePoll return InvalidInput and leave
\* the polls unchanged whenever the question is longer than 500 characters,
\* fewer than 2 or more than 10 options are submitted, or an option is longer
\* than 200 characters.
C9_OutOfRangeRejected ==
  [][ ( /\ Returns
        /\ call'.op \in {"createPoll", "updatePoll"}
        /\ \/ Length(call'.question) > MaxQuestionLen
           \/ Len(call'.options) < MinOptions
           \/ Len(call'.options) > MaxOptions
           \/ \E i \in 1..Len(call'.options) : Length(call'.options[i]) > MaxOptionLen )
      => (Kind(call'.error) = "InvalidInput" /\ polls' = polls)
    ]_vars

\* C10 (as claimed): with a valid question and an authenticated caller,
\* createPoll and updatePoll return InvalidInput and leave the polls
\* unchanged whenever an entry of the submitted options is empty after
\* trimming, the empty string included.
C10_EmptyOptionRejected ==
  [][ ( /\ Returns
        /\ call'.op \in {"createPoll", "updatePoll"}
        /\ call'.caller \in Users
        /\ ~call'.fault
        /\ 1 <= Length(Trim(call'.question))
        /\ Length(call'.question) <= MaxQuestionLen
        /\ \E i \in 1..Len(call'.options) : Length(Trim(call'.options[i])) = 0 )
      => (Kind(call'.error) = "InvalidInput" /\ polls' = polls)
    ]_vars

\* a stored text of 1 to max characters without surrounding whitespace
WellFormed(s, max) ==
  /\ 1 <= Length(s) /\ Length(s) <= max
  /\ s.lead = 0 /\ s.trail = 0

\* C11: every stored poll has 2 to 10 options, each of 1 to 200 characters
\* without surrounding whitespace, and a question of 1 to 500 characters
\* without surrounding whitespace; createPoll and updatePoll preserve this.
C11_StoredPollsWellFormed ==
  \A id \in DOMAIN polls :
    /\ WellFormed(polls[id].question, MaxQuestionLen)
    /\ MinOptions <= Len(polls[id].options)
    /\ Len(polls[id].options) <= MaxOptions
    /\ \A i \in 1..Len(polls[id].options) :
         WellFormed(polls[id].options[i], MaxOptionLen)

\* an updatePoll replaced a poll's content with input that was submitted with
\* surrounding whitespace around the question and around an option
C11_Witness ==
  /\ call.op = "updatePoll"
  /\ call.error = NULL
  /\ call.pollId \in DOMAIN polls
  /\ Length(call.question) > Length(Trim(call.question))
  /\ polls[call.pollId].question = Trim(call.question)
  /\ \E i \in 1..Len(call.options) : Length(call.options[i]) > Length(Trim(call.options[i]))
  /\ polls[call.pollId].options = MapTrim(FilterBoolean(call.options))

\* the handler invoked in this step has not returned: its locals are in flight
Suspended(p) ==
  /\ started' # started
  /\ CopiesIn(p, inflight') > CopiesIn(p, inflight)

\* C12: a submitVote on an existing poll whose option index is negative or
\* not below the number of the poll's options returns InvalidInput and
\* records no vote: it returns in the step that reads the poll, and no
\* submitVote goes on towards the insert with such an index.
C12_BadIndexRejected ==
  [][ /\ ( /\ Returns
           /\ started' # started
           /\ call'.op = "submitVote"
           /\ ~call'.fault
           /\ call'.pollId \in DOMAIN polls
           /\ \/ call'.optionIndex < 0
              \/ call'.optionIndex >= Len(polls[call'.pollId].options) )
         => (Kind(call'.error) = "InvalidInput" /\ votes' = votes)
      /\ \A p \in BagToSet(inflight') :
           (Suspended(p) /\ p.req.op = "submitVote") =>
             /\ p.req.pollId \in DOMAIN polls
             /\ p.req.optionIndex >= 0
             /\ p.req.optionIndex < Len(polls[p.req.pollId].options)
    ]_vars

\* an index that is valid for a poll of three options was refused on a poll
\* of two options that has a vote
C12_Witness ==
  /\ call.op = "submitVote"
  /\ call.error = "Invalid option selected."
  /\ call.pollId \in DOMAIN polls
  /\ call.optionIndex = Len(polls[call.pollId].options)
  /\ \E v \in votes : v.poll_id = call.pollId

\* C13 (as claimed): every vote, in the step that persists it, has an
\* option_index from 0 to below the number of options its poll has in the
\* store at that moment, also when an updatePoll of the owner shortened the
\* options between submitVote's read of the poll and its insert.
C13_IndexInRangeWhenPersisted ==
  [][ \A v \in votes' \ votes :
        /\ v.poll_id \in DOMAIN polls'
        /\ 0 <= v.option_index
        /\ v.option_index < Len(polls'[v.poll_id].options)
    ]_vars

\* C14: getPollById of a stored poll returns the poll to every caller,
\* signed in or not, owner or not, with canEdit true exactly when the caller
\* is signed in and is the poll's owner; getPollById of an absent id returns
\* NotFound.
C14_GetPollAndCanEdit ==
  (call.op = "getPollById" /\ ~call.fault) =>
    IF call.pollId \in DOMAIN polls
      THEN /\ call.error = NULL
           /\ call.rows = <<polls[call.pollId]>>
           /\ call.canEdit = (call.caller \in Users
                                /\ call.caller = polls[call.pollId].user_id)
      ELSE /\ Kind(call.error) = "NotFound"
           /\ call.rows = <<>>

\* a signed-in caller fetched another user's poll and may not edit it
C14_Witness ==
  /\ call.op = "getPollById"
  /\ call.error = NULL
  /\ call.caller \in Users
  /\ call.rows # <<>>
  /\ call.rows[1].user_id # call.caller
  /\ ~call.canEdit

\* the rows of a result are in descending order of created_at
Descending(rows) ==
  \A i, j \in 1..Len(rows) : i < j => rows[i].created_at >= rows[j].created_at

\* the rows of a result are exactly the polls in ids, each once
ExactlyPolls(rows, ids) ==
  /\ Len(rows) = Cardinality(ids)
  /\ {rows[i] : i \in 1..Len(rows)} = {polls[id] : id \in ids}

\* C15: getAllPolls returns Unauthenticated to an anonymous caller, Forbidden
\* with an empty list to a signed-in caller whose contact address is not in
\* the admin list, and to a caller whose address is in the list every stored
\* poll, whoever owns it, in descending order of created_at.
C15_ListAllPolls ==
  (call.op = "getAllPolls" /\ ~call.fault) =>
    IF call.caller = Anon
      THEN Kind(call.error) = "Unauthenticated" /\ call.rows = <<>>
    ELSE IF Email(call.caller) \notin adminEmails
      THEN Kind(call.error) = "Forbidden" /\ call.rows = <<>>
    ELSE /\ call.error = NULL
         /\ ExactlyPolls(call.rows, DOMAIN polls)
         /\ Descending(call.rows)

\* an admin listed two polls of two owners
C15_Witness ==
  /\ call.op = "getAllPolls"
  /\ call.error = NULL
  /\ Len(call.rows) = 2
  /\ call.rows[1].user_id # call.rows[2].user_id
  /\ call.rows[1].created_at > call.rows[2].created_at

\* C16: getUserPolls of a signed-in caller returns exactly the stored polls
\* whose user_id is the caller, none of another owner, in descending order of
\* created_at; of an anonymous caller it returns Unauthenticated with an
\* empty list.
C16_ListOwnPolls ==
  (call.op = "getUserPolls" /\ ~call.fault) =>
    IF call.caller = Anon
      THEN Kind(call.error) = "Unauthenticated" /\ call.rows = <<>>
      ELSE /\ call.error = NULL
           /\ ExactlyPolls(call.rows,
                           {id \in DOMAIN polls : polls[id].user_id = call.caller})
           /\ Descending(call.rows)

\* a signed-in caller listed its one poll while the store holds another
\* owner's poll too
C16_Witness ==
  /\ call.op = "getUserPolls"
  /\ call.error = NULL
  /\ Len(call.rows) = 1
  /\ call.rows[1].user_id = call.caller
  /\ \E id \in DOMAIN polls : polls[id].user_id # call.caller

\* C17: a submitVote of an anonymous caller that reaches its insert while the
\* poll is stored and the index is in range succeeds and adds a vote without
\* user_id, however many anonymous votes the poll has.
C17_AnonymousVoteAccepted ==
  [][ ( /\ Returns
        /\ call'.op = "submitVote"
        /\ call'.caller = Anon
        /\ ~call'.fault
        /\ call'.pollId \in DOMAIN polls
        /\ 0 <= call'.optionIndex
        /\ call'.optionIndex < Len(polls[call'.pollId].options) )
      => /\ call'.error = NULL
         /\ votes \subseteq votes'
         /\ \E v \in votes' \ votes :
              /\ votes' = votes \cup {v}
              /\ v.poll_id = call'.pollId
              /\ v.user_id = NoUser
              /\ v.option_index = call'.optionIndex
    ]_vars

\* a second anonymous vote for the same option of the same poll was accepted
C17_Witness ==
  /\ call.op = "submitVote"
  /\ call.caller = Anon
  /\ call.error = NULL
  /\ Cardinality({v \in votes : /\ v.poll_id = call.pollId
                                /\ v.user_id = NoUser
                                /\ v.option_index = call.optionIndex}) = 2

\* the suspended handler p goes on in this step
Resumed(p) ==
  /\ started' = started
  /\ CopiesIn(p, inflight') < CopiesIn(p, inflight)

\* C18: a submitVote of a signed-in caller that already has a vote on the
\* poll, with an index in range, returns Conflict and leaves the votes as
\* they are. Step by step: such a call gets to its duplicate check; a vote
\* stays in the store unchanged as long as its poll does; and the duplicate
\* check of a caller that has a vote returns Conflict without writing.
C18_SecondVoteConflict ==
  [][ /\ ( /\ Returns
           /\ started' # started
           /\ call'.op = "submitVote"
           /\ call'.caller \in Users
           /\ ~call'.fault
           /\ call'.pollId \in DOMAIN polls
           /\ 0 <= call'.optionIndex
           /\ call'.optionIndex < Len(polls[call'.pollId].options) )
         => FALSE
      /\ \A p \in BagToSet(inflight') :
           (Suspended(p) /\ p.req.op = "submitVote" /\ p.user \in Users) => p.pc = "check"
      /\ \A v \in votes : v \in votes' \/ v.poll_id \notin DOMAIN polls'
      /\ \A p \in BagToSet(inflight) :
           ( /\ Resumed(p)
             /\ p.pc = "check"
             /\ VotesOf(p.req.pollId, p.user) # {} )
           => \/ /\ call' # NoCall
                 /\ [call' EXCEPT !.entry = NULL, !.error = NULL, !.status = 0] = p.req
                 /\ Kind(call'.error) = "Conflict"
                 /\ votes' = votes
              \/ \E q \in BagToSet(inflight') :
                   q = [p EXCEPT !.pc = "insert", !.req.fault = TRUE]
    ]_vars

\* a caller that voted for one option was refused a vote for another option,
\* and its vote is as it was
C18_Witness ==
  /\ call.op = "submitVote"
  /\ call.caller \in Users
  /\ call.error = "You have already voted on this poll."
  /\ \E v \in votes : /\ v.poll_id = call.pollId
                      /\ v.user_id = call.caller
                      /\ v.option_index # call.optionIndex

\* C19 (as claimed): a request without session to GET /api/polls/[id], to
\* the page /polls/[id] or to POST /api/polls/[id]/vote passes the
\* middleware and is handed to its handler.
C19_AnonymousReachesPolls ==
  ( /\ call.op = "middleware"
    /\ call.caller = Anon
    /\ call.path \in {PollApiPath, PollPagePath, VotePath} )
  => call.redirect = <<>>

\* C20 (as claimed): whatever store call fails inside createPoll, updatePoll,
\* deletePoll, adminDeletePoll, getPollById, getUserPolls, getAllPolls or
\* submitVote, the error returned is one of the handlers' fixed messages and
\* never the store's own error detail.
C20_NoStoreDetailReturned ==
  (call.op \in {"createPoll", "updatePoll", "deletePoll", "adminDeletePoll",
                "getPollById", "getUserPolls", "getAllPolls", "submitVote"}
     /\ call.fault)
  => call.error # StoreDetail

\* the polls P without poll id, and with a poll id owned by owner
Without(P, id) == [i \in DOMAIN P \ {id} |-> P[i]]
With(P, id, owner) ==
  [i \in DOMAIN P \cup {id} |->
     IF i = id
       THEN [id |-> id, user_id |-> owner, question |-> QuestionA,
             options |-> OptionsA, created_at |-> id]
       ELSE P[i]]

\* what a signed-in caller without permission on poll id is answered on the
\* polls P, with valid input and no fault
Denied(op, uid, id, P) ==
  CASE op = "updatePoll" -> OwnershipCheck(P, id, uid)
    [] op = "deletePoll" -> NULL
    [] OTHER -> "Admin access required."

\* the call c meets the polls P without permission on its poll: the poll is
\* absent or another user's, or, for the admin delete, the caller is no admin
LacksPermission(c, P) ==
  /\ c.caller \in Users
  /\ ~c.fault
  /\ \/ /\ c.op = "updatePoll"
        /\ ValidatePoll(c.question, FilterBoolean(c.options)) = OK
        /\ c.pollId \notin DOMAIN P \/ P[c.pollId].user_id # c.caller
     \/ /\ c.op = "deletePoll"
        /\ c.pollId \notin DOMAIN P \/ P[c.pollId].user_id # c.caller
     \/ /\ c.op = "adminDeletePoll"
        /\ Email(c.caller) \notin adminEmails

\* C21 (as claimed): updatePoll and deletePoll by a non-owner, and the admin
\* delete by a non-admin, are answered alike on two stores that differ only
\* in whether poll X, owned by someone else, exists: the answer a call gets
\* on the polls it meets is the answer on the polls without X and on the
\* polls with X.
C21_ExistenceNotRevealed ==
  [][(Returns /\ started' # started /\ LacksPermission(call', polls)) =>
       /\ call'.error = Denied(call'.op, call'.caller, call'.pollId, polls)
       /\ \A owner \in Users \ {call'.caller} :
            /\ call'.error = Denied(call'.op, call'.caller, call'.pollId,
                                    Without(polls, call'.pollId))
            /\ call'.error = Denied(call'.op, call'.caller, call'.pollId,
                                    With(polls, call'.pollId, owner))]_vars


\* C22 (as claimed): an operation that returns success has applied its whole
\* effect. An updatePoll that returns success found its poll at the write
\* and replaced the poll's question and options by the trimmed inputs in the
\* returning step; a deletePoll that returns success removed its poll in the
\* returning step. The behaviours include a delete of the poll by another
\* request between updatePoll's ownership read and its write.
C22_SuccessAppliedWholeEffect ==
  [][(Returns /\ call'.error = NULL /\ ~call'.fault) =>
       /\ call'.op = "updatePoll" =>
            /\ call'.pollId \in DOMAIN polls
            /\ call'.pollId \in DOMAIN polls'
            /\ polls'[call'.pollId].question = Trim(call'.question)
            /\ polls'[call'.pollId].options = MapTrim(FilterBoolean(call'.options))
       /\ call'.op = "deletePoll" =>
            /\ call'.pollId \in DOMAIN polls
            /\ call'.pollId \notin DOMAIN polls']_vars


\* C23 (as claimed): every createPoll, updatePoll, deletePoll and admin
\* delete that returns success has invalidated the poll-listing view "/polls"
\* before it returns, and a successful admin delete has invalidated the
\* admin-overview view "/admin" as well.
C23_SuccessInvalidatesViews ==
  ( /\ call.op \in {"createPoll", "updatePoll", "deletePoll", "adminDeletePoll"}
    /\ call.error = NULL )
  => /\ "/polls" \in call.revalidated
     /\ call.op = "adminDeletePoll" => "/admin" \in call.revalidated


\* the operations that have a server action and a route handler
PairedOps ==
  {"createPoll", "getUserPolls", "getPollById", "updatePoll", "deletePoll",
   "submitVote", "getAllPolls", "adminDeletePoll"}

\* a step of the handlers that returns, through entry point entry, an
\* invocation like c (same operation, caller, input and store-call outcome)
\* with the outcome kind and the data of c, leaving the polls ps, the votes
\* vs and the suspended handlers fl; first: in the handler's first step
ReturnsLike(entry, first, c, ps, vs, fl) ==
  /\ \/ c.op = "createPoll" /\ CreatePoll
     \/ c.op = "getUserPolls" /\ GetUserPolls
     \/ c.op = "getPollById" /\ GetPollById
     \/ c.op = "updatePoll" /\ first /\ UpdatePollRead
     \/ c.op = "updatePoll" /\ ~first /\ UpdatePollWrite
     \/ c.op = "deletePoll" /\ DeletePoll
     \/ c.op = "submitVote" /\ first /\ SubmitVoteRead
     \/ c.op = "submitVote" /\ ~first /\ (SubmitVoteCheck \/ SubmitVoteInsert)
     \/ c.op = "getAllPolls" /\ GetAllPolls
     \/ c.op = "adminDeletePoll" /\ AdminDeletePoll
  /\ call'.entry = entry
  /\ call'.op = c.op /\ call'.caller = c.caller /\ call'.pollId = c.pollId
  /\ call'.question = c.question /\ call'.options = c.options
  /\ call'.optionIndex = c.optionIndex /\ call'.fault = c.fault
  /\ Kind(call'.error) = Kind(c.error)
  /\ call'.rows = c.rows /\ call'.canEdit = c.canEdit
  /\ polls' = ps /\ votes' = vs /\ inflight' = fl

C25_PollIdentityFrame ==
  [][/\ \A id \in DOMAIN polls \cap DOMAIN polls' :
          /\ polls'[id].id = polls[id].id
          /\ polls'[id].user_id = polls[id].user_id
          /\ polls'[id].created_at = polls[id].created_at
     /\ \A id \in DOMAIN polls' \ DOMAIN polls :
          /\ call'.op = "createPoll"
          /\ polls'[id].id = id
          /\ polls'[id].user_id = call'.caller]_vars

\* an updatePoll has returned success and its poll carries the new question
C25_Witness ==
  /\ call.op = "updatePoll"
  /\ call.error = NULL
  /\ call.pollId \in DOMAIN polls
  /\ polls[call.pollId].question = Trim(QuestionB)
  /\ polls[call.pollId].options = MapTrim(OptionsB)


\* C26: createPoll, updatePoll, deletePoll and getUserPolls called without a
\* session, with otherwise valid input, return Unauthenticated (the route
\* handlers with status 401) and leave the polls and votes as they were:
\* such a call returns in its first step, and none goes on to a later step.
C26_AnonymousUnauthenticated ==
  [][/\ ( /\ Returns
          /\ started' # started
          /\ call'.caller = Anon
          /\ call'.op \in {"createPoll", "updatePoll", "deletePoll", "getUserPolls"}
          /\ call'.op \in {"createPoll", "updatePoll"} =>
               ValidatePoll(call'.question, FilterBoolean(call'.options)) = OK )
        => /\ Kind(call'.error) = "Unauthenticated"
           /\ call'.entry = "route" => call'.status = 401
           /\ polls' = polls /\ votes' = votes
     /\ \A p \in BagToSet(inflight') :
          (Suspended(p) /\ p.pc = "update") => p.req.caller # Anon]_vars

\* PUT /api/polls/[id] has answered a caller without session, with valid
\* input, on an existing poll
C26_Witness ==
  /\ call.op = "updatePoll"
  /\ call.entry = "route"
  /\ call.caller = Anon
  /\ ValidatePoll(call.question, FilterBoolean(call.options)) = OK
  /\ call.pollId \in DOMAIN polls
  /\ call.status = 401


\* the first of the four input checks that the question and the list of
\* options fail, in the order question required, question length, option
\* count, per-option text and length (option by option), or OK
FirstInputViolation(question, options) ==
  LET bad == {i \in 1..Len(options) :
                \/ Length(Trim(options[i])) = 0
                \/ Length(options[i]) > MaxOptionLen}
      first == CHOOSE i \in bad : \A j \in bad : i <= j
  IN IF Length(Trim(question)) = 0 THEN "Question is required."
     ELSE IF Length(question) > MaxQuestionLen
       THEN "Question must be less than 500 characters."
     ELSE IF Len(options) < MinOptions THEN "Please provide at least two options."
     ELSE IF Len(options) > MaxOptions THEN "Maximum 10 options allowed."
     ELSE IF bad = {} THEN OK
     ELSE IF Length(Trim(options[first])) = 0 THEN "All options must have text."
     ELSE "Options must be less than 200 characters."

\* the call c, with the options it is validated on, is answered on the
\* polls P by the first failing check in the order input checks,
\* authentication, poll existence, ownership
AnsweredByFirstFailing(c, options, P) ==
  LET v == FirstInputViolation(c.question, options)
  IN IF v # OK
       THEN c.error = v /\ (c.entry = "route" => c.status = 400)
     ELSE IF c.caller = Anon
       THEN Kind(c.error) = "Unauthenticated" /\ (c.entry = "route" => c.status = 401)
     ELSE IF c.op = "updatePoll" /\ c.pollId \notin DOMAIN P
       THEN c.error = "Poll not found." /\ (c.entry = "route" => c.status = 404)
     ELSE IF c.op = "updatePoll" /\ P[c.pollId].user_id # c.caller
       THEN c.error = "You can only edit your own polls."
            /\ (c.entry = "route" => c.status = 403)
     ELSE TRUE

\* some check of the order fails for the call c on the polls P
SomeCheckFails(c, options, P) ==
  \/ FirstInputViolation(c.question, options) # OK
  \/ c.caller = Anon
  \/ c.op = "updatePoll" /\ c.pollId \notin DOMAIN P
  \/ c.op = "updatePoll" /\ P[c.pollId].user_id # c.caller

\* C27 (as claimed): createPoll and updatePoll evaluate the checks question
\* required, question length, option count, per-option text and length,
\* authentication and, for updatePoll, poll existence and ownership in this
\* order on the submitted input, and answer with the error of the first check
\* that fails (the routes with 400, 401, 404, 403); a call that fails a check
\* goes no further than its first step.
C27_FirstFailingCheckReported ==
  [][/\ ( /\ Returns
          /\ started' # started
          /\ call'.op \in {"createPoll", "updatePoll"}
          /\ ~call'.fault )
        => AnsweredByFirstFailing(call', call'.options, polls)
     /\ \A p \in BagToSet(inflight') :
          (Suspended(p) /\ p.pc = "update") =>
            ~SomeCheckFails(p.req, p.req.options, polls)]_vars


\* C28: an operation that returns an error leaves the polls and votes as
\* they were. Step by step: the polls or the votes change only in a step in
\* which a handler returns success; the steps a handler takes before it
\* returns, and the step in which it returns an error of any kind, change
\* neither.
C28_ErrorLeavesStore ==
  [][(polls' # polls \/ votes' # votes) =>
       (Returns /\ call'.error = NULL)]_vars

\* the write of an updatePoll has failed, and the poll is as it was
C28_Witness ==
  /\ call.op = "updatePoll"
  /\ call.error = "Failed to update poll."
  /\ call.pollId \in DOMAIN polls
  /\ polls[call.pollId].question # Trim(call.question)
  /\ votes # {}


\* C29 (as claimed): once the listener of AuthProvider has been delivered an
\* event, the provider's session is the session of the most recent event and
\* its user is that session's user (both null for an event without session),
\* whatever the order of the completion of the initial getUser and the
\* events; the completion of getUser does not replace a delivered session.
C29_SessionFollowsListener ==
  provider.events > 0 =>
    /\ provider.session = provider.last
    /\ provider.user = provider.last.user


\* C30 (as claimed): when a handleDelete(P) of the admin page completes with
\* success, poll P is not on display, and a poll that is not on display
\* comes on display again only when fetchAllPolls reloads the list, however
\* the handleDelete calls in flight for different polls interleave.
C30_DeletedPollStaysAbsent ==
  [][/\ \A h \in page.handleDelete \ page'.handleDelete :
          call.error = NULL => h.pollId \notin Shown(page')
     /\ \A id \in PollIds :
          (id \notin Shown(page) /\ id \in Shown(page')) =>
            (page.fetchAllPolls = "requested" /\ page'.fetchAllPolls = "done")]_vars

====
